---- MODULE Spec2Model ----
(***************************************************************************)
(* Eye-Remote-Control: the temporal decision layer.                        *)
(*                                                                         *)
(*   MediaPipeEyeDetector   (eye_detector_mediapipe.py)  eye machine, gaze *)
(*                          machine and the two position windows           *)
(*   VideoCaptureThread.run (main_widget.py, video_capture.py)  the loop   *)
(*                          that turns detection results into commands     *)
(*   SimpleActionController (action_controller_simple.py)  the controller  *)
(*                          with cooldown and gaze-duration gate           *)
(*                                                                         *)
(* Time is wall-clock time in ticks of 0.1 s.  EAR values are in 1/1000.   *)
(* The variance of a window is kept as an exact fraction [num, den].       *)
(* Not modelled, because no decision reads them: the FPS counters, the     *)
(* EAR and eye-state history deques, blink_start_frame, and the time stamp *)
(* stored next to each position in the position windows.                   *)
(***************************************************************************)
EXTENDS Integers, Sequences, FiniteSets, Bags, TLC

\* ---------------------------------------------------------------- bounds
StartTime == 100
Horizon == 12
CtlHorizon == 50
WarmFrames == 26
MaxMoves == 1
MaxClosed == 6
MaxTurns == 2
LossHorizon == 5
SessionHorizon == 4
ScenarioFrames == 20
SteadyHorizon == 3
TotalFrames == 2
AppHorizon == 12

\* ------------------------------------------------------ program constants
GAZING_STABILITY_THRESHOLD == 35
GAZING_CONFIRMATION_FRAMES == 12
GAZING_BREAK_FRAMES == 15
EAR_THRESHOLD == 210
EAR_BLINK_THRESHOLD == 180
EAR_OPEN_THRESHOLD == 250
BLINK_FRAME_THRESHOLD == 4
BLINK_COOLDOWN == 10
ShortBlinkFrames == 3
PositionHistoryLen == 25
MinSamples == 5
UnstableVariance == 1000
FaceGrace == 10
action_cooldown == 8
gazing_required_duration == 15

\* Time left to the loop after the face has gone: more than the grace period.
LossRoom == 2 * FaceGrace

\* Frames left to the loop after the input has become steady: enough to
\* refill the position window, confirm the gaze and reopen the eyes.
SteadyRoom == PositionHistoryLen + GAZING_CONFIRMATION_FRAMES + 3

\* ------------------------------------------------------------ frame inputs
\* Time that passes between two iterations of the capture loop (sleep of
\* 0.03 s plus the time to read and process a frame), and between two calls
\* of process_detection.
FrameGaps == {1, 5}
CallGaps == {1, 3, 8}

\* Head poses: eye centre and nose centre in pixels.
HeadPoses ==
    { [eye |-> <<100, 100>>, nose |-> <<100, 130>>],
      [eye |-> <<120, 100>>, nose |-> <<120, 130>>] }

NoFace == [face |-> FALSE]

\* Eye landmark geometry: the two vertical distances A, B and the horizontal
\* eye-corner distance C of calculate_ear (open, shut, degenerate).
OpenEye == [A |-> 6, B |-> 6, C |-> 20]
ShutEye == [A |-> 2, B |-> 2, C |-> 20]
FlatEye == [A |-> 3, B |-> 3, C |-> 0]
HalfEye == [A |-> 12, B |-> 11, C |-> 50]

\* EAR 0.30 / 0.30, 0.10 / 0.10, 0.30 / 0.10 (average 0.20), 0.0 / 0.0
EyePairs ==
    { <<OpenEye, OpenEye>>, <<ShutEye, ShutEye>>, <<OpenEye, ShutEye>>,
      <<FlatEye, FlatEye>> }

FaceFrames ==
    { [face |-> TRUE, left |-> e[1], right |-> e[2], eye |-> p.eye, nose |-> p.nose] :
        e \in EyePairs, p \in HeadPoses }

\* The frame of steady attention: eyes open, head at rest.
NominalFrame ==
    [face |-> TRUE, left |-> OpenEye, right |-> OpenEye,
     eye |-> <<100, 100>>, nose |-> <<100, 130>>]

VARIABLES
    now,                       \* time.time()
    last_command,              \* VideoCaptureThread.last_command
    last_face_detected_time,   \* VideoCaptureThread.last_face_detected_time
    eye_detector,              \* VideoCaptureThread.eye_detector
    action_controller,         \* a SimpleActionController
    moves,                     \* number of head-pose changes fed so far
    out,                       \* observation of the last processed frame
    emitted_pair,              \* the last two commands emitted by the loop
    absence,                   \* observation of the current no-face run
    closure,                   \* observation of the current eye closure
    ctl_out,                   \* observation of the last process_detection call
    returned_pair,             \* the last two commands process_detection returned
    gaze_run,                  \* observation of the current gaze timer run
    det_out,                   \* observation of the last detect_eyes_state call
    running,                   \* VideoCaptureThread.running
    restarted,                 \* start_capture after a stop_capture, no frame read since
    lost,                      \* the face has left the camera for good
    tally,                     \* observation of the scripted scenario
    steady,                    \* << >>, or the one head pose of every frame from now on
    video_player_thread,       \* MainWindow.video_player_thread, a VideoPlayerThread
    video_loaded,              \* MainWindow.video_loaded
    gui_pc,                    \* the player method the GUI thread is in, and its next statement
    run_pc,                    \* the next statement of VideoPlayerThread.run
    pending,                   \* command_detected signals emitted and not yet handled
    touched,                   \* a button press or the end of playback since the last command
    seek_pending,              \* the frame of the newest accepted seek not yet applied, or -1
    attending                  \* the user is in front of the camera, looking at the screen

vars == << now, last_command, last_face_detected_time,
           eye_detector, action_controller, moves, out, emitted_pair,
           absence, closure, ctl_out, returned_pair, gaze_run, det_out,
           running, restarted, lost, tally, steady,
           video_player_thread, video_loaded, gui_pc, run_pc, pending,
           touched, seek_pending, attending >>

ctlVars == << action_controller, ctl_out, returned_pair, gaze_run >>

sessionVars == << running, restarted >>

playerVars == << video_player_thread, gui_pc, run_pc, seek_pending >>

appVars == << video_loaded, pending, touched, attending >>

extraVars == << steady, playerVars, appVars >>

envVars == << lost, tally, extraVars >>

loopVars == << last_command, last_face_detected_time, eye_detector, moves, out,
              emitted_pair, absence, closure >>

None == "none"

\* ---------------------------------------------------- MediaPipeEyeDetector
NewEyeDetector ==
    [ eye_state |-> "open",
      blink_counter |-> 0,
      closed_counter |-> 0,
      blink_cooldown_counter |-> 0,
      in_blink_phase |-> FALSE,
      gazing_state |-> "not_gazing",
      gazing_confirm_counter |-> 0,
      gazing_break_counter |-> 0,
      face_position_history |-> << >>,
      nose_position_history |-> << >> ]

\* EAR = (A + B) / (2 C), 0.0 when the corner distance is zero.
calculate_ear(shape) ==
    IF shape.C = 0 THEN 0 ELSE ((shape.A + shape.B) * 1000) \div (2 * shape.C)

\* Sum of coordinate i over the window, and of its square.  Pixel
\* coordinates are positive, so the sum is the size of the bag k :> s[k][i].
SumOf(s, i) == IF s = << >> THEN 0 ELSE BagCardinality([k \in DOMAIN s |-> s[k][i]])

SumSqOf(s, i) ==
    IF s = << >> THEN 0 ELSE BagCardinality([k \in DOMAIN s |-> s[k][i] * s[k][i]])

\* A variance that sees the y coordinate only: the spread of the x
\* coordinate is taken as zero.
VarNum_y_only(s, i) ==
    IF i = 1 THEN 0
    ELSE LET sum == SumOf(s, i) IN Len(s) * SumSqOf(s, i) - sum * sum

\* numpy.var of coordinate i, times Len(s)^2
VarNum(s, i) ==
    LET sum == SumOf(s, i) IN Len(s) * SumSqOf(s, i) - sum * sum

\* x variance + y variance as the fraction num / den
calculate_position_variance(position_history) ==
    IF Len(position_history) < MinSamples
    THEN [num |-> UnstableVariance, den |-> 1]
    ELSE [num |-> VarNum(position_history, 1) + VarNum(position_history, 2),
          den |-> Len(position_history) * Len(position_history)]

\* (eye_variance + nose_variance) / 2.0
MeanVariance(ev, nv) ==
    [num |-> ev.num * nv.den + nv.num * ev.den, den |-> 2 * ev.den * nv.den]

\* An append that drops the arriving sample when the window is full.
DequeAppend_keep_oldest(h, x) ==
    IF Len(h) >= PositionHistoryLen THEN h ELSE Append(h, x)

\* deque(maxlen = 25).append
DequeAppend(h, x) ==
    IF Len(h) >= PositionHistoryLen THEN Append(Tail(h), x) ELSE Append(h, x)

\* update_eye_state that declares the eyes closed one frame early.
update_eye_state_early_close(d0, avg_ear) ==
    LET d == IF d0.blink_cooldown_counter > 0
             THEN [d0 EXCEPT !.blink_cooldown_counter = @ - 1]
             ELSE d0
    IN  CASE d.eye_state = "open" ->
               IF avg_ear < EAR_BLINK_THRESHOLD
               THEN [d EXCEPT !.eye_state = "closing", !.blink_counter = 1,
                              !.closed_counter = 0, !.in_blink_phase = TRUE]
               ELSE d
          [] d.eye_state = "closing" ->
               IF avg_ear < EAR_BLINK_THRESHOLD
               THEN IF d.blink_counter + 1 >= BLINK_FRAME_THRESHOLD
                    THEN [d EXCEPT !.blink_counter = @ + 1, !.eye_state = "closed",
                                   !.closed_counter = d.blink_counter + 1]
                    ELSE [d EXCEPT !.blink_counter = @ + 1]
               ELSE [d EXCEPT !.eye_state = "open", !.blink_counter = 0,
                              !.in_blink_phase = FALSE]
          [] d.eye_state = "closed" ->
               IF avg_ear > EAR_OPEN_THRESHOLD
               THEN [d EXCEPT !.eye_state = "opening", !.blink_counter = 0]
               ELSE [d EXCEPT !.closed_counter = @ + 1]
          [] d.eye_state = "opening" ->
               IF avg_ear > EAR_OPEN_THRESHOLD
               THEN IF d.blink_counter - 1 <= 0
                    THEN [d EXCEPT !.eye_state = "open", !.blink_counter = 0,
                                   !.closed_counter = 0, !.in_blink_phase = FALSE]
                    ELSE [d EXCEPT !.blink_counter = @ - 1]
               ELSE [d EXCEPT !.eye_state = "closed"]

\* update_eye_state that starts the closure count at 0.
update_eye_state_count_from_zero(d0, avg_ear) ==
    LET d == IF d0.blink_cooldown_counter > 0
             THEN [d0 EXCEPT !.blink_cooldown_counter = @ - 1]
             ELSE d0
    IN  CASE d.eye_state = "open" ->
               IF avg_ear < EAR_BLINK_THRESHOLD
               THEN [d EXCEPT !.eye_state = "closing", !.blink_counter = 0,
                              !.closed_counter = 0, !.in_blink_phase = TRUE]
               ELSE d
          [] d.eye_state = "closing" ->
               IF avg_ear < EAR_BLINK_THRESHOLD
               THEN IF d.blink_counter + 1 > BLINK_FRAME_THRESHOLD
                    THEN [d EXCEPT !.blink_counter = @ + 1, !.eye_state = "closed",
                                   !.closed_counter = d.blink_counter + 1]
                    ELSE [d EXCEPT !.blink_counter = @ + 1]
               ELSE [d EXCEPT !.eye_state = "open", !.blink_counter = 0,
                              !.in_blink_phase = FALSE]
          [] d.eye_state = "closed" ->
               IF avg_ear > EAR_OPEN_THRESHOLD
               THEN [d EXCEPT !.eye_state = "opening", !.blink_counter = 0]
               ELSE [d EXCEPT !.closed_counter = @ + 1]
          [] d.eye_state = "opening" ->
               IF avg_ear > EAR_OPEN_THRESHOLD
               THEN IF d.blink_counter - 1 <= 0
                    THEN [d EXCEPT !.eye_state = "open", !.blink_counter = 0,
                                   !.closed_counter = 0, !.in_blink_phase = FALSE]
                    ELSE [d EXCEPT !.blink_counter = @ - 1]
               ELSE [d EXCEPT !.eye_state = "closed"]

\* update_eye_state that opens on the first frame above the open threshold.
update_eye_state_no_confirm(d0, avg_ear) ==
    LET d == IF d0.blink_cooldown_counter > 0
             THEN [d0 EXCEPT !.blink_cooldown_counter = @ - 1]
             ELSE d0
    IN  CASE d.eye_state = "open" ->
               IF avg_ear < EAR_BLINK_THRESHOLD
               THEN [d EXCEPT !.eye_state = "closing", !.blink_counter = 1,
                              !.closed_counter = 0, !.in_blink_phase = TRUE]
               ELSE d
          [] d.eye_state = "closing" ->
               IF avg_ear < EAR_BLINK_THRESHOLD
               THEN IF d.blink_counter + 1 > BLINK_FRAME_THRESHOLD
                    THEN [d EXCEPT !.blink_counter = @ + 1, !.eye_state = "closed",
                                   !.closed_counter = d.blink_counter + 1]
                    ELSE [d EXCEPT !.blink_counter = @ + 1]
               ELSE [d EXCEPT !.eye_state = "open", !.blink_counter = 0,
                              !.in_blink_phase = FALSE]
          [] d.eye_state = "closed" ->
               IF avg_ear > EAR_OPEN_THRESHOLD
               THEN [d EXCEPT !.eye_state = "open", !.blink_counter = 0,
                              !.closed_counter = 0, !.in_blink_phase = FALSE]
               ELSE [d EXCEPT !.closed_counter = @ + 1]
          [] d.eye_state = "opening" ->
               IF avg_ear > EAR_OPEN_THRESHOLD
               THEN IF d.blink_counter - 1 <= 0
                    THEN [d EXCEPT !.eye_state = "open", !.blink_counter = 0,
                                   !.closed_counter = 0, !.in_blink_phase = FALSE]
                    ELSE [d EXCEPT !.blink_counter = @ - 1]
               ELSE [d EXCEPT !.eye_state = "closed"]

\* update_eye_state that goes from open to closed on the first low frame.
update_eye_state_snap_shut(d0, avg_ear) ==
    LET d == IF d0.blink_cooldown_counter > 0
             THEN [d0 EXCEPT !.blink_cooldown_counter = @ - 1]
             ELSE d0
    IN  CASE d.eye_state = "open" ->
               IF avg_ear < EAR_BLINK_THRESHOLD
               THEN [d EXCEPT !.eye_state = "closed", !.blink_counter = 1,
                              !.closed_counter = 1, !.in_blink_phase = TRUE]
               ELSE d
          [] d.eye_state = "closing" ->
               IF avg_ear < EAR_BLINK_THRESHOLD
               THEN IF d.blink_counter + 1 > BLINK_FRAME_THRESHOLD
                    THEN [d EXCEPT !.blink_counter = @ + 1, !.eye_state = "closed",
                                   !.closed_counter = d.blink_counter + 1]
                    ELSE [d EXCEPT !.blink_counter = @ + 1]
               ELSE [d EXCEPT !.eye_state = "open", !.blink_counter = 0,
                              !.in_blink_phase = FALSE]
          [] d.eye_state = "closed" ->
               IF avg_ear > EAR_OPEN_THRESHOLD
               THEN [d EXCEPT !.eye_state = "opening", !.blink_counter = 0]
               ELSE [d EXCEPT !.closed_counter = @ + 1]
          [] d.eye_state = "opening" ->
               IF avg_ear > EAR_OPEN_THRESHOLD
               THEN IF d.blink_counter - 1 <= 0
                    THEN [d EXCEPT !.eye_state = "open", !.blink_counter = 0,
                                   !.closed_counter = 0, !.in_blink_phase = FALSE]
                    ELSE [d EXCEPT !.blink_counter = @ - 1]
               ELSE [d EXCEPT !.eye_state = "closed"]

\* update_eye_state that enters closed without recording the closure count.
update_eye_state_forget_count(d0, avg_ear) ==
    LET d == IF d0.blink_cooldown_counter > 0
             THEN [d0 EXCEPT !.blink_cooldown_counter = @ - 1]
             ELSE d0
    IN  CASE d.eye_state = "open" ->
               IF avg_ear < EAR_BLINK_THRESHOLD
               THEN [d EXCEPT !.eye_state = "closing", !.blink_counter = 1,
                              !.closed_counter = 0, !.in_blink_phase = TRUE]
               ELSE d
          [] d.eye_state = "closing" ->
               IF avg_ear < EAR_BLINK_THRESHOLD
               THEN IF d.blink_counter + 1 > BLINK_FRAME_THRESHOLD
                    THEN [d EXCEPT !.blink_counter = @ + 1, !.eye_state = "closed",
                                   !.closed_counter = 0]
                    ELSE [d EXCEPT !.blink_counter = @ + 1]
               ELSE [d EXCEPT !.eye_state = "open", !.blink_counter = 0,
                              !.in_blink_phase = FALSE]
          [] d.eye_state = "closed" ->
               IF avg_ear > EAR_OPEN_THRESHOLD
               THEN [d EXCEPT !.eye_state = "opening", !.blink_counter = 0]
               ELSE [d EXCEPT !.closed_counter = @ + 1]
          [] d.eye_state = "opening" ->
               IF avg_ear > EAR_OPEN_THRESHOLD
               THEN IF d.blink_counter - 1 <= 0
                    THEN [d EXCEPT !.eye_state = "open", !.blink_counter = 0,
                                   !.closed_counter = 0, !.in_blink_phase = FALSE]
                    ELSE [d EXCEPT !.blink_counter = @ - 1]
               ELSE [d EXCEPT !.eye_state = "closed"]

\* update_eye_state that leaves in_blink_phase set when a short closure ends.
update_eye_state_keep_phase(d0, avg_ear) ==
    LET d == IF d0.blink_cooldown_counter > 0
             THEN [d0 EXCEPT !.blink_cooldown_counter = @ - 1]
             ELSE d0
    IN  CASE d.eye_state = "open" ->
               IF avg_ear < EAR_BLINK_THRESHOLD
               THEN [d EXCEPT !.eye_state = "closing", !.blink_counter = 1,
                              !.closed_counter = 0, !.in_blink_phase = TRUE]
               ELSE d
          [] d.eye_state = "closing" ->
               IF avg_ear < EAR_BLINK_THRESHOLD
               THEN IF d.blink_counter + 1 > BLINK_FRAME_THRESHOLD
                    THEN [d EXCEPT !.blink_counter = @ + 1, !.eye_state = "closed",
                                   !.closed_counter = d.blink_counter + 1]
                    ELSE [d EXCEPT !.blink_counter = @ + 1]
               ELSE [d EXCEPT !.eye_state = "open", !.blink_counter = 0]
          [] d.eye_state = "closed" ->
               IF avg_ear > EAR_OPEN_THRESHOLD
               THEN [d EXCEPT !.eye_state = "opening", !.blink_counter = 0]
               ELSE [d EXCEPT !.closed_counter = @ + 1]
          [] d.eye_state = "opening" ->
               IF avg_ear > EAR_OPEN_THRESHOLD
               THEN IF d.blink_counter - 1 <= 0
                    THEN [d EXCEPT !.eye_state = "open", !.blink_counter = 0,
                                   !.closed_counter = 0, !.in_blink_phase = FALSE]
                    ELSE [d EXCEPT !.blink_counter = @ - 1]
               ELSE [d EXCEPT !.eye_state = "closed"]

update_eye_state(d0, avg_ear) ==
    LET d == IF d0.blink_cooldown_counter > 0
             THEN [d0 EXCEPT !.blink_cooldown_counter = @ - 1]
             ELSE d0
    IN  CASE d.eye_state = "open" ->
               IF avg_ear < EAR_BLINK_THRESHOLD
               THEN [d EXCEPT !.eye_state = "closing", !.blink_counter = 1,
                              !.closed_counter = 0, !.in_blink_phase = TRUE]
               ELSE d
          [] d.eye_state = "closing" ->
               IF avg_ear < EAR_BLINK_THRESHOLD
               THEN IF d.blink_counter + 1 > BLINK_FRAME_THRESHOLD
                    THEN [d EXCEPT !.blink_counter = @ + 1, !.eye_state = "closed",
                                   !.closed_counter = d.blink_counter + 1]
                    ELSE [d EXCEPT !.blink_counter = @ + 1]
               ELSE [d EXCEPT !.eye_state = "open", !.blink_counter = 0,
                              !.in_blink_phase = FALSE]
          [] d.eye_state = "closed" ->
               IF avg_ear > EAR_OPEN_THRESHOLD
               THEN [d EXCEPT !.eye_state = "opening", !.blink_counter = 0]
               ELSE [d EXCEPT !.closed_counter = @ + 1]
          [] d.eye_state = "opening" ->
               IF avg_ear > EAR_OPEN_THRESHOLD
               THEN IF d.blink_counter - 1 <= 0
                    THEN [d EXCEPT !.eye_state = "open", !.blink_counter = 0,
                                   !.closed_counter = 0, !.in_blink_phase = FALSE]
                    ELSE [d EXCEPT !.blink_counter = @ - 1]
               ELSE [d EXCEPT !.eye_state = "closed"]

IsStable(position_variance) ==
    position_variance.num < GAZING_STABILITY_THRESHOLD * position_variance.den

\* update_gazing_state that keeps the confirm count over an unstable frame.
update_gazing_state_keep_count(d, position_variance) ==
    LET is_stable == IsStable(position_variance)
    IN  CASE d.gazing_state = "not_gazing" ->
               IF is_stable
               THEN IF d.gazing_confirm_counter + 1 >= GAZING_CONFIRMATION_FRAMES
                    THEN [d EXCEPT !.gazing_state = "gazing",
                                   !.gazing_confirm_counter = 0,
                                   !.gazing_break_counter = 0]
                    ELSE [d EXCEPT !.gazing_confirm_counter = @ + 1,
                                   !.gazing_break_counter = 0]
               ELSE d
          [] d.gazing_state = "gazing" ->
               IF ~is_stable
               THEN IF d.gazing_break_counter + 1 >= GAZING_BREAK_FRAMES
                    THEN [d EXCEPT !.gazing_state = "not_gazing",
                                   !.gazing_break_counter = 0,
                                   !.gazing_confirm_counter = 0]
                    ELSE [d EXCEPT !.gazing_break_counter = @ + 1,
                                   !.gazing_confirm_counter = 0]
               ELSE [d EXCEPT !.gazing_break_counter = 0]

\* update_gazing_state that breaks the gaze one frame late.
update_gazing_state_late_break(d, position_variance) ==
    LET is_stable == IsStable(position_variance)
    IN  CASE d.gazing_state = "not_gazing" ->
               IF is_stable
               THEN IF d.gazing_confirm_counter + 1 >= GAZING_CONFIRMATION_FRAMES
                    THEN [d EXCEPT !.gazing_state = "gazing",
                                   !.gazing_confirm_counter = 0,
                                   !.gazing_break_counter = 0]
                    ELSE [d EXCEPT !.gazing_confirm_counter = @ + 1,
                                   !.gazing_break_counter = 0]
               ELSE [d EXCEPT !.gazing_confirm_counter = 0]
          [] d.gazing_state = "gazing" ->
               IF ~is_stable
               THEN IF d.gazing_break_counter + 1 > GAZING_BREAK_FRAMES
                    THEN [d EXCEPT !.gazing_state = "not_gazing",
                                   !.gazing_break_counter = 0,
                                   !.gazing_confirm_counter = 0]
                    ELSE [d EXCEPT !.gazing_break_counter = @ + 1,
                                   !.gazing_confirm_counter = 0]
               ELSE [d EXCEPT !.gazing_break_counter = 0]

\* update_gazing_state that leaves the confirm counter at its threshold on
\* entering gazing.
update_gazing_state_keep_confirm(d, position_variance) ==
    LET is_stable == IsStable(position_variance)
    IN  CASE d.gazing_state = "not_gazing" ->
               IF is_stable
               THEN IF d.gazing_confirm_counter + 1 >= GAZING_CONFIRMATION_FRAMES
                    THEN [d EXCEPT !.gazing_state = "gazing",
                                   !.gazing_confirm_counter = @ + 1,
                                   !.gazing_break_counter = 0]
                    ELSE [d EXCEPT !.gazing_confirm_counter = @ + 1,
                                   !.gazing_break_counter = 0]
               ELSE [d EXCEPT !.gazing_confirm_counter = 0]
          [] d.gazing_state = "gazing" ->
               IF ~is_stable
               THEN IF d.gazing_break_counter + 1 >= GAZING_BREAK_FRAMES
                    THEN [d EXCEPT !.gazing_state = "not_gazing",
                                   !.gazing_break_counter = 0,
                                   !.gazing_confirm_counter = 0]
                    ELSE [d EXCEPT !.gazing_break_counter = @ + 1,
                                   !.gazing_confirm_counter = 0]
               ELSE [d EXCEPT !.gazing_break_counter = 0]

update_gazing_state(d, position_variance) ==
    LET is_stable == IsStable(position_variance)
    IN  CASE d.gazing_state = "not_gazing" ->
               IF is_stable
               THEN IF d.gazing_confirm_counter + 1 >= GAZING_CONFIRMATION_FRAMES
                    THEN [d EXCEPT !.gazing_state = "gazing",
                                   !.gazing_confirm_counter = 0,
                                   !.gazing_break_counter = 0]
                    ELSE [d EXCEPT !.gazing_confirm_counter = @ + 1,
                                   !.gazing_break_counter = 0]
               ELSE [d EXCEPT !.gazing_confirm_counter = 0]
          [] d.gazing_state = "gazing" ->
               IF ~is_stable
               THEN IF d.gazing_break_counter + 1 >= GAZING_BREAK_FRAMES
                    THEN [d EXCEPT !.gazing_state = "not_gazing",
                                   !.gazing_break_counter = 0,
                                   !.gazing_confirm_counter = 0]
                    ELSE [d EXCEPT !.gazing_break_counter = @ + 1,
                                   !.gazing_confirm_counter = 0]
               ELSE [d EXCEPT !.gazing_break_counter = 0]

NoFaceResult ==
    [ face_detected |-> FALSE, eyes_closed |-> TRUE, is_blinking |-> FALSE,
      is_short_blink |-> FALSE, eye_state |-> "no_face", is_gazing |-> FALSE,
      gazing_state |-> "not_gazing", avg_ear |-> 0,
      position_variance |-> [num |-> UnstableVariance, den |-> 1] ]

\* EyeFlags that reports closure only in the closed state.
EyeFlags_closed_only(d, avg_ear) ==
    CASE d.eye_state = "closed" ->
           [ eyes_closed |-> TRUE,
             is_blinking |-> d.closed_counter <= BLINK_FRAME_THRESHOLD,
             is_short_blink |-> d.closed_counter <= BLINK_FRAME_THRESHOLD ]
      [] d.eye_state = "closing" ->
           LET blinking == /\ d.blink_counter <= BLINK_FRAME_THRESHOLD
                           /\ d.blink_cooldown_counter = 0
                           /\ d.in_blink_phase
           IN  [ eyes_closed |-> FALSE,
                 is_blinking |-> blinking,
                 is_short_blink |-> blinking /\ d.blink_counter <= ShortBlinkFrames ]
      [] OTHER ->
           [ eyes_closed |-> FALSE, is_blinking |-> FALSE, is_short_blink |-> FALSE ]

\* eyes_closed, is_blinking, is_short_blink after the eye machine's update
EyeFlags(d, avg_ear) ==
    CASE d.eye_state = "closed" ->
           [ eyes_closed |-> TRUE,
             is_blinking |-> d.closed_counter <= BLINK_FRAME_THRESHOLD,
             is_short_blink |-> d.closed_counter <= BLINK_FRAME_THRESHOLD ]
      [] d.eye_state = "closing" ->
           LET blinking == /\ d.blink_counter <= BLINK_FRAME_THRESHOLD
                           /\ d.blink_cooldown_counter = 0
                           /\ d.in_blink_phase
           IN  [ eyes_closed |-> avg_ear < EAR_THRESHOLD,
                 is_blinking |-> blinking,
                 is_short_blink |-> blinking /\ d.blink_counter <= ShortBlinkFrames ]
      [] OTHER ->
           [ eyes_closed |-> FALSE, is_blinking |-> FALSE, is_short_blink |-> FALSE ]

\* The no-face branch that resets the two states and forgets the counters.
ResetOnNoFace_states_only(d) ==
    [d EXCEPT !.eye_state = "open", !.gazing_state = "not_gazing"]

\* The no-face branch that resets the eye machine only.
ResetOnNoFace_keep_gaze(d) ==
    [d EXCEPT !.eye_state = "open", !.blink_counter = 0,
              !.closed_counter = 0, !.in_blink_phase = FALSE]

\* The assignments of the no-face branch of detect_eyes_state.
ResetOnNoFace(d) ==
    [d EXCEPT !.eye_state = "open", !.blink_counter = 0,
              !.closed_counter = 0, !.in_blink_phase = FALSE,
              !.gazing_state = "not_gazing",
              !.gazing_confirm_counter = 0,
              !.gazing_break_counter = 0]

\* The variance of a window as np.var computes it, whatever its length.
RawVariance(position_history) ==
    [num |-> VarNum(position_history, 1) + VarNum(position_history, 2),
     den |-> Len(position_history) * Len(position_history)]

\* The gaze step without its minimum of samples: the variance of whatever
\* the windows hold is fed to the gaze machine on every frame.
GazeStep_no_minimum(d2) ==
    LET position_variance ==
            MeanVariance(RawVariance(d2.face_position_history),
                         RawVariance(d2.nose_position_history))
    IN  [ det |-> update_gazing_state(d2, position_variance),
          enough |-> TRUE,
          position_variance |-> position_variance ]

\* A gaze step that takes any frame with the eye state not open as a break
\* of the gaze.
GazeStep_eyes_open_only(d2) ==
    LET enough == /\ Len(d2.face_position_history) >= MinSamples
                  /\ Len(d2.nose_position_history) >= MinSamples
        position_variance ==
            IF enough
            THEN MeanVariance(calculate_position_variance(d2.face_position_history),
                              calculate_position_variance(d2.nose_position_history))
            ELSE [num |-> UnstableVariance, den |-> 1]
    IN  [ det |-> IF d2.eye_state # "open"
                  THEN [d2 EXCEPT !.gazing_state = "not_gazing",
                                  !.gazing_confirm_counter = 0,
                                  !.gazing_break_counter = 0]
                  ELSE IF enough THEN update_gazing_state(d2, position_variance)
                  ELSE d2,
          enough |-> enough,
          position_variance |-> position_variance ]

\* The gaze step of detect_eyes_state, on the detector whose windows already
\* hold the frame's positions: with MinSamples positions in both windows the
\* variance is computed and fed to the gaze machine; with fewer the machine
\* is left alone.
GazeStep(d2) ==
    LET enough == /\ Len(d2.face_position_history) >= MinSamples
                  /\ Len(d2.nose_position_history) >= MinSamples
        position_variance ==
            IF enough
            THEN MeanVariance(calculate_position_variance(d2.face_position_history),
                              calculate_position_variance(d2.nose_position_history))
            ELSE [num |-> UnstableVariance, den |-> 1]
    IN  [ det |-> IF enough THEN update_gazing_state(d2, position_variance) ELSE d2,
          enough |-> enough,
          position_variance |-> position_variance ]

\* detect_eyes_state: the detector after the frame and the detection result
detect_eyes_state(d, f) ==
    IF ~f.face
    THEN [ det |-> ResetOnNoFace(d), result |-> NoFaceResult ]
    ELSE
      LET avg_ear == (calculate_ear(f.left) + calculate_ear(f.right)) \div 2
          d1 == update_eye_state(d, avg_ear)
          flags == EyeFlags(d1, avg_ear)
          d2 == [d1 EXCEPT
                   !.face_position_history = DequeAppend(@, f.eye),
                   !.nose_position_history = DequeAppend(@, f.nose)]
          g == GazeStep(d2)
          d3 == g.det
      IN  [ det |-> d3,
            result |->
              [ face_detected |-> TRUE,
                eyes_closed |-> flags.eyes_closed,
                is_blinking |-> flags.is_blinking,
                is_short_blink |-> flags.is_short_blink,
                eye_state |-> d1.eye_state,
                is_gazing |-> g.enough /\ d3.gazing_state = "gazing",
                gazing_state |-> IF g.enough THEN d3.gazing_state ELSE "not_gazing",
                avg_ear |-> avg_ear,
                position_variance |-> g.position_variance ] ]

\* ------------------------------------------------- VideoCaptureThread.run
\* decide_command without the grace period: no face pauses at once.
decide_command_no_grace(face_detected, eyes_closed, is_gazing, current_time, last_face_time) ==
    IF face_detected
    THEN IF eyes_closed \/ ~is_gazing THEN "pause" ELSE "play"
    ELSE "pause"

\* decide_command that looks at the gaze only.
decide_command_gaze_only(face_detected, eyes_closed, is_gazing, current_time, last_face_time) ==
    IF face_detected
    THEN IF ~is_gazing THEN "pause" ELSE "play"
    ELSE IF current_time - last_face_time > FaceGrace THEN "pause" ELSE None

\* decide_command that never pauses for a missing face.
decide_command_hold_on_loss(face_detected, eyes_closed, is_gazing, current_time, last_face_time) ==
    IF face_detected
    THEN IF eyes_closed \/ ~is_gazing THEN "pause" ELSE "play"
    ELSE None

\* The command the loop wants on this frame (None: no command).
decide_command(face_detected, eyes_closed, is_gazing, current_time, last_face_time) ==
    IF face_detected
    THEN IF eyes_closed \/ ~is_gazing THEN "pause" ELSE "play"
    ELSE IF current_time - last_face_time > FaceGrace THEN "pause" ELSE None

\* should_emit that lets only the first command through.
should_emit_first_only(command, last) == command # None /\ last = None

\* should_emit without the comparison with the last command.
should_emit_every_frame(command, last) == command # None

\* should_emit that compares only a "play" with the last command.
should_emit_pause_again(command, last) ==
    command # None /\ (command = "pause" \/ command # last)

\* should_emit that compares only a "pause" with the last command.
should_emit_play_again(command, last) ==
    command # None /\ (command = "play" \/ command # last)

\* "if command and command != self.last_command"
should_emit(command, last) == command # None /\ command # last

NoOut ==
    [ face |-> FALSE, eyes_closed |-> FALSE, is_gazing |-> FALSE,
      is_blinking |-> FALSE, stable |-> FALSE, same_pos |-> FALSE,
      eye_before |-> "none", eye_after |-> "none", gaze_before |-> "none",
      desired |-> None, emitted |-> None, before |-> None,
      absent_for |-> 0, after_miss |-> FALSE, processed |-> FALSE ]

NoPair == [prev |-> None, last |-> None, last_time |-> 0, gap |-> -1]

PushPair(pair, command, t) ==
    [ prev |-> pair.last, last |-> command, last_time |-> t,
      gap |-> IF pair.last = None THEN -1 ELSE t - pair.last_time ]

NoAbsence == [active |-> FALSE, pauses |-> 0, before |-> None]

NoClosure == [armed |-> FALSE, paused |-> FALSE]

PoseChanged(d, f) ==
    /\ f.face
    /\ d.face_position_history # << >>
    /\ d.face_position_history[Len(d.face_position_history)] # f.eye

\* The thread as constructed at time t.
NewCaptureThread(t) ==
    [ now |-> t,
      last_command |-> None,
      last_face_detected_time |-> t,
      eye_detector |-> NewEyeDetector,
      moves |-> 0,
      out |-> NoOut,
      emitted_pair |-> NoPair,
      absence |-> NoAbsence,
      closure |-> NoClosure ]

\* What one iteration of the loop observes, given the detection r.
Observe(st, f, r, current_time, command, emitted) ==
    LET stable == r.result.face_detected /\ IsStable(r.result.position_variance)
    IN
    [ out |->
        [ face |-> r.result.face_detected,
          eyes_closed |-> r.result.eyes_closed,
          is_gazing |-> r.result.is_gazing,
          is_blinking |-> r.result.is_blinking,
          stable |-> stable,
          same_pos |-> /\ f.face
                       /\ st.eye_detector.face_position_history # << >>
                       /\ ~PoseChanged(st.eye_detector, f),
          eye_before |-> st.eye_detector.eye_state,
          eye_after |-> r.det.eye_state,
          gaze_before |-> st.eye_detector.gazing_state,
          desired |-> command,
          emitted |-> emitted,
          before |-> st.last_command,
          absent_for |-> current_time - st.last_face_detected_time,
          after_miss |-> st.out.processed /\ ~st.out.face,
          processed |-> TRUE ],
      absence |->
        IF r.result.face_detected THEN NoAbsence
        ELSE IF st.absence.active
             THEN [st.absence EXCEPT
                      !.pauses = @ + (IF emitted = "pause" THEN 1 ELSE 0)]
             ELSE [ active |-> TRUE,
                    pauses |-> IF emitted = "pause" THEN 1 ELSE 0,
                    before |-> st.last_command ],
      closure |->
        IF ~r.result.face_detected THEN NoClosure
        ELSE IF st.eye_detector.eye_state = "open" /\ r.det.eye_state = "closing"
        THEN [ armed |-> /\ st.eye_detector.gazing_state = "gazing"
                         /\ st.last_command = "play" /\ stable,
               paused |-> emitted = "pause" ]
        ELSE IF st.eye_detector.eye_state = "closing"
                /\ r.det.eye_state \in {"closing", "open"}
        THEN [ armed |-> st.closure.armed /\ stable,
               paused |-> st.closure.paused \/ emitted = "pause" ]
        ELSE NoClosure ]

\* The rest of an iteration once the frame has been through the detector.
AfterDetection(st, f, r, current_time) ==
    LET command == decide_command(r.result.face_detected, r.result.eyes_closed,
                                  r.result.is_gazing, current_time,
                                  st.last_face_detected_time)
        emit == should_emit(command, st.last_command)
        obs == Observe(st, f, r, current_time, command,
                       IF emit THEN command ELSE None)
    IN  [ now |-> current_time,
          last_command |-> IF emit THEN command ELSE st.last_command,
          last_face_detected_time |->
              IF r.result.face_detected THEN current_time
              ELSE st.last_face_detected_time,
          eye_detector |-> r.det,
          moves |-> st.moves + (IF PoseChanged(st.eye_detector, f) THEN 1 ELSE 0),
          out |-> obs.out,
          emitted_pair |->
              IF emit THEN PushPair(st.emitted_pair, command, current_time)
              ELSE st.emitted_pair,
          absence |-> obs.absence,
          closure |-> obs.closure ]

\* One iteration of the loop on frame f, read dt ticks after the previous
\* processed frame.  (An iteration with detection disabled or a failed read
\* changes nothing the decisions read: it only lengthens dt.)
run_iteration(st, dt, f) ==
    AfterDetection(st, f, detect_eyes_state(st.eye_detector, f), st.now + dt)

\* n iterations on the frame of steady attention, one tick apart.
RECURSIVE RunNominal(_, _)
RunNominal(st, n) ==
    IF n = 0 THEN st ELSE RunNominal(run_iteration(st, 1, NominalFrame), n - 1)

\* The thread after WarmFrames frames of steady attention.
WarmCaptureThread == RunNominal(NewCaptureThread(StartTime - WarmFrames), WarmFrames)

Thread ==
    [ now |-> now,
      last_command |-> last_command,
      last_face_detected_time |-> last_face_detected_time,
      eye_detector |-> eye_detector,
      moves |-> moves,
      out |-> out,
      emitted_pair |-> emitted_pair,
      absence |-> absence,
      closure |-> closure ]

SetThread(st) ==
    /\ now' = st.now
    /\ last_command' = st.last_command
    /\ last_face_detected_time' = st.last_face_detected_time
    /\ eye_detector' = st.eye_detector
    /\ moves' = st.moves
    /\ out' = st.out
    /\ emitted_pair' = st.emitted_pair
    /\ absence' = st.absence
    /\ closure' = st.closure

\* The loop processes frame f, read dt ticks after the previous one, dt in
\* gaps, and no later than time limit.
ProcessFrameIn(f, gaps, limit) ==
    \E r \in {detect_eyes_state(eye_detector, f)} :
        /\ running
        /\ r.det.closed_counter <= MaxClosed
        /\ \E dt \in gaps :
              /\ now + dt <= limit
              /\ \E st \in {AfterDetection(Thread, f, r, now + dt)} :
                    /\ st.moves <= MaxMoves
                    /\ SetThread(st)
        /\ restarted' = FALSE
        /\ UNCHANGED << ctlVars, det_out, running, envVars >>

ProcessFrameBy(f, limit) == ProcessFrameIn(f, FrameGaps, limit)

ProcessFrame(f) == ProcessFrameBy(f, StartTime + Horizon)

FaceFrame == \E f \in FaceFrames : ProcessFrame(f)

NoFaceFrame == ProcessFrame(NoFace)

\* stop_capture: the loop ends, the camera is released.
stop_capture ==
    /\ running
    /\ running' = FALSE
    /\ restarted' = FALSE
    /\ UNCHANGED << now, loopVars, ctlVars, det_out, envVars >>

\* start_capture on a stopped thread: the camera is reopened, the FPS
\* counters are reset and the loop runs again on the same thread object.
start_capture ==
    /\ ~running
    /\ running' = TRUE
    /\ restarted' = TRUE
    /\ UNCHANGED << now, loopVars, ctlVars, det_out, envVars >>

\* The scripted scenario: frames of steady attention, then one frame with
\* the eyes shut at the same position.
ShutFrame ==
    [face |-> TRUE, left |-> ShutEye, right |-> ShutEye,
     eye |-> NominalFrame.eye, nose |-> NominalFrame.nose]

NoTally ==
    [frames |-> 0, plays |-> 0, gazing_seen |-> FALSE, shut |-> FALSE,
     since_play |-> -1]

ScenarioFrame(f) ==
    /\ running
    /\ ~tally.shut
    /\ tally.frames < ScenarioFrames
    /\ \E dt \in FrameGaps :
          \E st \in {run_iteration(Thread, dt, f)} :
              /\ SetThread(st)
              /\ tally' =
                    [ frames |-> tally.frames + 1,
                      plays |-> tally.plays + (IF st.out.emitted = "play" THEN 1 ELSE 0),
                      gazing_seen |-> tally.gazing_seen \/ st.out.is_gazing,
                      shut |-> f = ShutFrame,
                      since_play |->
                          IF last_command = "play"
                          THEN st.now - emitted_pair.last_time ELSE -1 ]
    /\ UNCHANGED << ctlVars, det_out, sessionVars, lost, extraVars >>

SteadyFrame == ScenarioFrame(NominalFrame)

BlinkFrame == tally.frames > 0 /\ ScenarioFrame(ShutFrame)

\* ------------------------------------- detect_eyes_state driven on its own
\* The eye machine's fields of the detector.
EyePart(d) ==
    [ eye_state |-> d.eye_state, blink_counter |-> d.blink_counter,
      closed_counter |-> d.closed_counter,
      blink_cooldown_counter |-> d.blink_cooldown_counter,
      in_blink_phase |-> d.in_blink_phase ]

Bump(n, cap) == IF n >= cap THEN cap ELSE n + 1

\* The gaze machine's fields of the detector.
GazePart(d) ==
    [ gazing_state |-> d.gazing_state,
      gazing_confirm_counter |-> d.gazing_confirm_counter,
      gazing_break_counter |-> d.gazing_break_counter ]

\* A window whose samples are all the same point.
Uniform(h) == \A k \in DOMAIN h : h[k] = h[1]

\* A window that alternates between two different points.
Alternating(h) ==
    /\ Len(h) >= 2
    /\ h[1] # h[2]
    /\ \A k \in 1..(Len(h) - 2) : h[k + 2] = h[k]

NoDetOut ==
    [ called |-> FALSE, face |-> FALSE, degenerate |-> FALSE, avg_ear |-> 0,
      eyes_closed |-> FALSE,
      is_blinking |-> FALSE, is_short_blink |-> FALSE,
      is_gazing |-> FALSE, enough |-> FALSE,
      stable |-> FALSE, eye_before |-> EyePart(NewEyeDetector),
      gaze_before |-> "not_gazing",
      stable_run |-> 0, unstable_run |-> 0, low_run |-> 0, recovered |-> 0,
      since_reset |-> -1,
      position_variance |-> [num |-> UnstableVariance, den |-> 1],
      uniform |-> FALSE, alternating |-> FALSE,
      gaze_part_before |-> GazePart(NewEyeDetector), window_before |-> 0,
      flag_age |-> -1, flag_recovered |-> FALSE, reflagged_early |-> FALSE,
      eye_kept_gaze |-> TRUE, gaze_kept_eye |-> TRUE ]

\* What a call of detect_eyes_state on frame f shows: the result, the
\* machines before the call, and the lengths of the runs of like frames
\* that end with this frame.
ObserveDetection(d, f, r, prev) ==
    LET face == r.result.face_detected
        enough == face /\ Len(r.det.face_position_history) >= MinSamples
        stable == enough /\ IsStable(r.result.position_variance)
        low == face /\ r.result.avg_ear < EAR_BLINK_THRESHOLD
    IN  [ called |-> TRUE,
          face |-> face,
          \* an eye whose corner distance is zero: its EAR is undefined
          degenerate |-> face /\ (f.left.C = 0 \/ f.right.C = 0),
          avg_ear |-> r.result.avg_ear,
          eyes_closed |-> r.result.eyes_closed,
          is_blinking |-> r.result.is_blinking,
          is_short_blink |-> r.result.is_short_blink,
          is_gazing |-> r.result.is_gazing,
          enough |-> enough,
          stable |-> stable,
          eye_before |-> EyePart(d),
          gaze_before |-> d.gazing_state,
          \* consecutive stable frames fed to the machine while not gazing
          stable_run |->
              IF stable /\ d.gazing_state = "not_gazing"
              THEN Bump(prev.stable_run, GAZING_CONFIRMATION_FRAMES + 1) ELSE 0,
          \* consecutive unstable frames fed to the machine while gazing
          unstable_run |->
              IF enough /\ ~stable /\ d.gazing_state = "gazing"
              THEN Bump(prev.unstable_run, GAZING_BREAK_FRAMES + 1) ELSE 0,
          \* consecutive frames below the blink threshold, the first of them
          \* met with the eye state open
          low_run |->
              IF ~low THEN 0
              ELSE IF d.eye_state = "open" THEN 1
              ELSE IF prev.low_run > 0
                   THEN Bump(prev.low_run, BLINK_FRAME_THRESHOLD + 2)
                   ELSE 0,
          \* on a frame at or above the blink threshold: the length of the
          \* run of low frames it ends
          recovered |-> IF face /\ ~low THEN prev.low_run ELSE 0,
          \* stable frames in a row since a no-face frame that broke a
          \* confirmed gaze; -1 outside such an episode
          since_reset |->
              IF ~face
              THEN IF d.gazing_state = "gazing" \/ prev.since_reset >= 0
                   THEN 0 ELSE -1
              ELSE IF prev.since_reset < 0 \/ d.gazing_state = "gazing" THEN -1
              ELSE IF stable
                   THEN Bump(prev.since_reset, GAZING_CONFIRMATION_FRAMES + 1)
                   ELSE 0,
          position_variance |-> r.result.position_variance,
          \* the shape of the two position windows after the frame
          uniform |-> /\ face
                      /\ Uniform(r.det.face_position_history)
                      /\ Uniform(r.det.nose_position_history),
          alternating |-> /\ face
                          /\ Alternating(r.det.face_position_history)
                          /\ Alternating(r.det.nose_position_history),
          gaze_part_before |-> GazePart(d),
          window_before |-> Len(d.face_position_history),
          \* frames since the last frame that reported is_blinking (-1 when
          \* there is none), and whether a frame with a face has found the
          \* eye state open since
          flag_age |->
              IF r.result.is_blinking THEN 0
              ELSE IF prev.flag_age < 0 THEN -1
              ELSE Bump(prev.flag_age, BLINK_COOLDOWN + 1),
          flag_recovered |->
              /\ ~r.result.is_blinking
              /\ prev.flag_age >= 0
              /\ prev.flag_recovered \/ (face /\ r.det.eye_state = "open"),
          \* is_blinking reported within BLINK_COOLDOWN frames of a flagged
          \* closure that has recovered
          reflagged_early |->
              /\ r.result.is_blinking
              /\ prev.flag_recovered
              /\ prev.flag_age + 1 <= BLINK_COOLDOWN,
          \* the eye update left the gaze machine alone, and the steps after
          \* it left the eye machine alone
          eye_kept_gaze |->
              face => GazePart(update_eye_state(d, r.result.avg_ear)) = GazePart(d),
          gaze_kept_eye |->
              face => EyePart(r.det) = EyePart(update_eye_state(d, r.result.avg_ear)) ]

\* detect_eyes_state is called on frame f; moved is the count of pose
\* changes after it.
DetectFrame(f, moved) ==
    \E r \in {detect_eyes_state(eye_detector, f)} :
        /\ r.det.closed_counter <= MaxClosed
        /\ moves' = moved
        /\ eye_detector' = r.det
        /\ det_out' = ObserveDetection(eye_detector, f, r, det_out)
        /\ UNCHANGED << now, last_command, last_face_detected_time, out,
                        emitted_pair, absence, closure, ctlVars, sessionVars,
                        envVars >>

\* detect_eyes_state is called on frame f, with at most turns pose changes
\* over the run.
Detect(f, turns) ==
    LET moved == moves + (IF PoseChanged(eye_detector, f) THEN 1 ELSE 0)
    IN  moved <= turns /\ DetectFrame(f, moved)

\* Frames with the head at rest and any eye opening, half-open (EAR 0.23,
\* between EAR_THRESHOLD and EAR_OPEN_THRESHOLD) included.
EyeFrames ==
    { [face |-> TRUE, left |-> e[1], right |-> e[2],
       eye |-> NominalFrame.eye, nose |-> NominalFrame.nose] :
        e \in EyePairs \cup { <<HalfEye, HalfEye>> } }

\* Frames with open eyes and the head in any pose.
HeadFrames == { f \in FaceFrames : f.left = OpenEye /\ f.right = OpenEye }

EyeFrame == \E f \in EyeFrames : Detect(f, 0)

HeadFrame == \E f \in HeadFrames : Detect(f, MaxTurns)

LostFrame == Detect(NoFace, MaxTurns)

\* A frame that carries on an alternation between two head poses: the
\* windows hold one sample or alternate, and the frame's pose is not the
\* newest sample's.
AlternateFrame ==
    \E f \in HeadFrames :
        /\ PoseChanged(eye_detector, f)
        /\ \/ Len(eye_detector.face_position_history) = 1
           \/ Alternating(eye_detector.face_position_history)
        /\ DetectFrame(f, MaxTurns)

\* ------------------------------------------------------ VideoPlayerThread
\* The player thread of main_widget.py and video_player.py: the two classes
\* have the same flags, play, pause, stop, shutdown and playback loop;
\* video_player.py adds target_frame, set by seek and applied by the loop.
\* Each attribute assignment is one step, so the GUI thread's calls and the
\* playback thread's loop interleave statement by statement.
NewPlayer ==
    [ cap |-> FALSE, playing |-> FALSE, paused |-> FALSE, stopped |-> TRUE,
      exiting |-> FALSE, current_frame |-> 0, total_frames |-> 0,
      target_frame |-> -1 ]

Idle == [method |-> "idle", step |-> 0, arg |-> 0]

\* load_video of a file of TotalFrames frames that opens.
load_video(p) == [p EXCEPT !.cap = TRUE, !.total_frames = TotalFrames]

\* Statement k of play().
play(p, k) ==
    CASE k = 1 -> [p EXCEPT !.playing = TRUE]
      [] k = 2 -> [p EXCEPT !.paused = FALSE]
      [] k = 3 -> [p EXCEPT !.stopped = FALSE]

pause(p, k) == [p EXCEPT !.paused = TRUE]

\* Statement k of stop(); the last one also rewinds the capture.
stop(p, k) ==
    CASE k = 1 -> [p EXCEPT !.playing = FALSE]
      [] k = 2 -> [p EXCEPT !.paused = FALSE]
      [] k = 3 -> [p EXCEPT !.stopped = TRUE]
      [] k = 4 -> [p EXCEPT !.current_frame = 0]

shutdown_leave_running(p, k) ==
    CASE k = 1 -> p
      [] k = 2 -> [p EXCEPT !.playing = FALSE]
      [] k = 3 -> [p EXCEPT !.paused = FALSE]
      [] k = 4 -> [p EXCEPT !.stopped = TRUE]

\* Statement k of shutdown().
shutdown(p, k) ==
    CASE k = 1 -> [p EXCEPT !.exiting = TRUE]
      [] k = 2 -> [p EXCEPT !.playing = FALSE]
      [] k = 3 -> [p EXCEPT !.paused = FALSE]
      [] k = 4 -> [p EXCEPT !.stopped = TRUE]

SeekAccepted(p, frame_number) ==
    p.cap /\ 0 <= frame_number /\ frame_number < p.total_frames

\* seek() of video_player.py: the request is left in target_frame.
seek(p, frame_number) ==
    IF SeekAccepted(p, frame_number)
    THEN [p EXCEPT !.target_frame = frame_number]
    ELSE p

Statements(method) ==
    CASE method = "play" -> 3
      [] method = "pause" -> 1
      [] method = "stop" -> 4
      [] method = "shutdown" -> 4
      [] method = "seek" -> 1

\* The statement of the player method the GUI thread is at.
GuiStatement(p, pc) ==
    CASE pc.method = "play" -> play(p, pc.step)
      [] pc.method = "pause" -> pause(p, pc.step)
      [] pc.method = "stop" -> stop(p, pc.step)
      [] pc.method = "shutdown" -> shutdown(p, pc.step)
      [] pc.method = "seek" -> seek(p, pc.arg)

\* One statement of run() at position pc: the player after it, the next
\* position, and whether playback_finished was emitted.
run(p, pc) ==
    LET Goto(q, next) == [p |-> q, pc |-> next, finished |-> FALSE]
    IN  CASE pc = "loop" ->
               \* while not self.exiting
               IF p.exiting THEN Goto(p, "release") ELSE Goto(p, "seek_test")
          [] pc = "seek_test" ->
               IF p.target_frame >= 0 /\ p.cap /\ p.target_frame < p.total_frames
               THEN Goto(p, "seek_apply")
               ELSE Goto(p, "gate_stopped")
          [] pc = "seek_apply" ->
               Goto([p EXCEPT !.current_frame = p.target_frame], "seek_clear")
          [] pc = "seek_clear" ->
               Goto([p EXCEPT !.target_frame = -1], "gate_stopped")
          [] pc = "gate_stopped" ->
               IF p.stopped THEN Goto(p, "loop") ELSE Goto(p, "gate_playing")
          [] pc = "gate_playing" ->
               IF ~p.playing \/ p.paused THEN Goto(p, "loop") ELSE Goto(p, "read")
          [] pc = "read" ->
               \* cap.read() fails once every frame has been read
               IF ~p.cap THEN Goto(p, "loop")
               ELSE IF p.current_frame < p.total_frames
               THEN Goto([p EXCEPT !.current_frame = @ + 1], "finish_test")
               ELSE Goto(p, "end_playing")
          [] pc = "finish_test" ->
               IF p.current_frame >= p.total_frames
               THEN Goto(p, "end_playing")
               ELSE Goto(p, "loop")
          [] pc = "end_playing" ->
               Goto([p EXCEPT !.playing = FALSE], "end_stopped")
          [] pc = "end_stopped" ->
               Goto([p EXCEPT !.stopped = TRUE], "end_frame")
          [] pc = "end_frame" ->
               [ p |-> [p EXCEPT !.current_frame = 0], pc |-> "loop",
                 finished |-> TRUE ]
          [] pc = "release" ->
               \* after the loop: self.cap.release(); self.cap = None
               Goto([p EXCEPT !.cap = FALSE], "done")

\* Everything outside the player and the main window.
captureVars == << now, loopVars, ctlVars, det_out, sessionVars, lost, tally,
                 steady, attending >>

\* The playback thread executes its next statement.
RunStep ==
    /\ run_pc # "done"
    /\ \E r \in {run(video_player_thread, run_pc)} :
          /\ video_player_thread' = r.p
          /\ run_pc' = r.pc
          /\ touched' = (touched \/ r.finished)
    /\ seek_pending' =
          IF \/ run_pc = "seek_apply" /\ video_player_thread.target_frame = seek_pending
             \/ run_pc = "seek_clear" /\ video_player_thread.current_frame = seek_pending
          THEN -1 ELSE seek_pending
    /\ UNCHANGED << captureVars, gui_pc, video_loaded, pending >>

\* The GUI thread executes the next statement of the player method it is in.
GuiStep ==
    /\ gui_pc.method # "idle"
    /\ video_player_thread' = GuiStatement(video_player_thread, gui_pc)
    /\ gui_pc' = IF gui_pc.step >= Statements(gui_pc.method)
                 THEN Idle ELSE [gui_pc EXCEPT !.step = @ + 1]
    /\ seek_pending' =
          IF gui_pc.method = "seek" /\ SeekAccepted(video_player_thread, gui_pc.arg)
          THEN gui_pc.arg ELSE seek_pending
    /\ UNCHANGED << captureVars, run_pc, video_loaded, pending, touched >>

\* The GUI thread is between events and the window is not closing.
GuiReady == gui_pc = Idle /\ ~video_player_thread.exiting

\* A button or slider handler of MainWindow that calls a player method.
Press(method, arg) ==
    /\ GuiReady
    /\ video_loaded
    /\ gui_pc' = [method |-> method, step |-> 1, arg |-> arg]
    /\ touched' = TRUE
    /\ UNCHANGED << captureVars, video_player_thread, run_pc, video_loaded,
                    pending, seek_pending >>

play_video == Press("play", 0)

pause_video == Press("pause", 0)

stop_video == Press("stop", 0)

\* The slider is released at a position: int(position * total_frames).
on_progress_slider_released ==
    \E n \in 0..TotalFrames : Press("seek", n)

\* select_video with a file that opens.
select_video ==
    /\ GuiReady
    /\ video_player_thread' = load_video(video_player_thread)
    /\ video_loaded' = TRUE
    /\ UNCHANGED << captureVars, gui_pc, run_pc, pending, touched, seek_pending >>

\* The slot of command_detected takes the oldest signal in the queue: the
\* command goes to play_video or pause_video if a video is loaded, and is
\* dropped otherwise.
handle_command ==
    /\ GuiReady
    /\ pending # << >>
    /\ pending' = Tail(pending)
    /\ gui_pc' = IF video_loaded
                 THEN [method |-> Head(pending), step |-> 1, arg |-> 0]
                 ELSE Idle
    /\ UNCHANGED << captureVars, video_player_thread, run_pc, video_loaded,
                    touched, seek_pending >>

\* One iteration of the capture loop while the window is open: the frame
\* shows steady attention or no face, and an emitted command is queued for
\* the GUI thread.
AppFrame ==
    /\ running
    /\ ~video_player_thread.exiting
    /\ now + 1 <= StartTime + AppHorizon
    /\ \E st \in {run_iteration(Thread, 1, IF attending THEN NominalFrame ELSE NoFace)} :
          /\ SetThread(st)
          /\ pending' = IF st.out.emitted = None
                        THEN pending ELSE Append(pending, st.out.emitted)
          /\ touched' = (touched /\ st.out.emitted = None)
    /\ UNCHANGED << ctlVars, det_out, sessionVars, lost, tally, steady, attending,
                    playerVars, video_loaded >>

\* The user looks away once playback has been asked for, and back once a
\* pause has.
LookAway ==
    /\ attending
    /\ last_command = "play"
    /\ attending' = FALSE
    /\ UNCHANGED << now, loopVars, ctlVars, det_out, sessionVars, lost, tally,
                    steady, playerVars, video_loaded, pending, touched >>

LookBack ==
    /\ ~attending
    /\ last_command = "pause"
    /\ attending' = TRUE
    /\ UNCHANGED << now, loopVars, ctlVars, det_out, sessionVars, lost, tally,
                    steady, playerVars, video_loaded, pending, touched >>

\* closeEvent calls shutdown() and then waits for the thread.
closeEvent ==
    /\ GuiReady
    /\ gui_pc' = [method |-> "shutdown", step |-> 1, arg |-> 0]
    /\ UNCHANGED << captureVars, video_player_thread, run_pc, video_loaded,
                    pending, touched, seek_pending >>

\* ------------------------------------------------ SimpleActionController
NewController ==
    [video_playing |-> FALSE, last_action_time |-> 0, gazing_start_time |-> 0]

\* The detection results process_detection can be handed: the three keys it
\* reads, as detect_eyes_state sets them (no face comes with eyes_closed).
Detections ==
    { [face_detected |-> FALSE, eyes_closed |-> TRUE, is_gazing |-> FALSE] }
    \cup { [face_detected |-> TRUE, eyes_closed |-> c, is_gazing |-> g] :
             c \in BOOLEAN, g \in BOOLEAN }

Interrupted(c) == [c EXCEPT !.video_playing = FALSE, !.gazing_start_time = 0]

\* _handle_video_mode that plays on the second attentive call, however soon.
_handle_video_mode_no_wait(c, detection_result, current_time) ==
    IF detection_result.eyes_closed \/ ~detection_result.face_detected
    THEN IF c.video_playing
         THEN [ctl |-> Interrupted(c), command |-> "pause"]
         ELSE [ctl |-> c, command |-> None]
    ELSE IF detection_result.is_gazing
    THEN IF ~c.video_playing
         THEN IF c.gazing_start_time = 0
              THEN [ctl |-> [c EXCEPT !.gazing_start_time = current_time],
                    command |-> None]
              ELSE [ctl |-> [c EXCEPT !.video_playing = TRUE, !.gazing_start_time = 0],
                    command |-> "play"]
         ELSE [ctl |-> c, command |-> None]
    ELSE IF c.video_playing
         THEN [ctl |-> Interrupted(c), command |-> "pause"]
         ELSE IF c.gazing_start_time # 0
         THEN [ctl |-> [c EXCEPT !.gazing_start_time = 0], command |-> None]
         ELSE [ctl |-> c, command |-> None]

\* _handle_video_mode that pauses for closed eyes or a missing face whether
\* or not the video is playing.
_handle_video_mode_pause_always(c, detection_result, current_time) ==
    IF detection_result.eyes_closed \/ ~detection_result.face_detected
    THEN [ctl |-> Interrupted(c), command |-> "pause"]
    ELSE IF detection_result.is_gazing
    THEN IF ~c.video_playing
         THEN IF c.gazing_start_time = 0
              THEN [ctl |-> [c EXCEPT !.gazing_start_time = current_time],
                    command |-> None]
              ELSE IF current_time - c.gazing_start_time >= gazing_required_duration
              THEN [ctl |-> [c EXCEPT !.video_playing = TRUE, !.gazing_start_time = 0],
                    command |-> "play"]
              ELSE [ctl |-> c, command |-> None]
         ELSE [ctl |-> c, command |-> None]
    ELSE IF c.video_playing
         THEN [ctl |-> Interrupted(c), command |-> "pause"]
         ELSE IF c.gazing_start_time # 0
         THEN [ctl |-> [c EXCEPT !.gazing_start_time = 0], command |-> None]
         ELSE [ctl |-> c, command |-> None]

_handle_video_mode(c, detection_result, current_time) ==
    IF detection_result.eyes_closed \/ ~detection_result.face_detected
    THEN IF c.video_playing
         THEN [ctl |-> Interrupted(c), command |-> "pause"]
         ELSE [ctl |-> c, command |-> None]
    ELSE IF detection_result.is_gazing
    THEN IF ~c.video_playing
         THEN IF c.gazing_start_time = 0
              THEN [ctl |-> [c EXCEPT !.gazing_start_time = current_time],
                    command |-> None]
              ELSE IF current_time - c.gazing_start_time >= gazing_required_duration
              THEN [ctl |-> [c EXCEPT !.video_playing = TRUE, !.gazing_start_time = 0],
                    command |-> "play"]
              ELSE [ctl |-> c, command |-> None]
         ELSE [ctl |-> c, command |-> None]
    ELSE IF c.video_playing
         THEN [ctl |-> Interrupted(c), command |-> "pause"]
         ELSE IF c.gazing_start_time # 0
         THEN [ctl |-> [c EXCEPT !.gazing_start_time = 0], command |-> None]
         ELSE [ctl |-> c, command |-> None]

InCooldown(c, current_time) == current_time - c.last_action_time < action_cooldown

\* process_detection without the cooldown check.
process_detection_no_cooldown(c, detection_result, current_time) ==
    LET r == _handle_video_mode(c, detection_result, current_time)
    IN  IF r.command # None
        THEN [ctl |-> [r.ctl EXCEPT !.last_action_time = current_time],
              command |-> r.command]
        ELSE r

process_detection(c, detection_result, current_time) ==
    IF InCooldown(c, current_time)
    THEN [ctl |-> c, command |-> None]
    ELSE LET r == _handle_video_mode(c, detection_result, current_time)
         IN  IF r.command # None
             THEN [ctl |-> [r.ctl EXCEPT !.last_action_time = current_time],
                   command |-> r.command]
             ELSE r

Attentive(d) == d.face_detected /\ ~d.eyes_closed /\ d.is_gazing

NoCtlOut ==
    [ called |-> FALSE, command |-> None, attentive |-> FALSE,
      since_action |-> 0, first_action |-> TRUE, playing_before |-> FALSE,
      played_before |-> FALSE, waited |-> 0, unbroken |-> FALSE,
      changed |-> FALSE ]

NoGazeRun == [started_at |-> 0, unbroken |-> FALSE, played |-> FALSE]

\* A call of process_detection dt ticks after the previous one.
Call(dt, d) ==
    /\ now + dt <= StartTime + CtlHorizon
    /\ now' = now + dt
    /\ \E r \in {process_detection(action_controller, d, now + dt)} :
          /\ action_controller' = r.ctl
          /\ returned_pair' =
                IF r.command # None
                THEN PushPair(returned_pair, r.command, now + dt)
                ELSE returned_pair
          /\ ctl_out' =
                [ called |-> TRUE,
                  command |-> r.command,
                  attentive |-> Attentive(d),
                  since_action |-> now + dt - returned_pair.last_time,
                  first_action |-> returned_pair.last = None,
                  playing_before |-> returned_pair.last = "play",
                  played_before |-> gaze_run.played,
                  waited |-> IF gaze_run.started_at = 0 THEN -1
                             ELSE now + dt - gaze_run.started_at,
                  unbroken |-> gaze_run.unbroken /\ Attentive(d),
                  changed |-> r.ctl # action_controller ]
          /\ gaze_run' =
                [ started_at |->
                    IF r.ctl.gazing_start_time = 0 THEN 0
                    ELSE IF action_controller.gazing_start_time = 0 THEN now + dt
                    ELSE gaze_run.started_at,
                  unbroken |->
                    IF r.ctl.gazing_start_time = 0 THEN FALSE
                    ELSE IF action_controller.gazing_start_time = 0 THEN TRUE
                    ELSE gaze_run.unbroken /\ Attentive(d),
                  played |-> gaze_run.played \/ r.command = "play" ]
    /\ UNCHANGED << loopVars, det_out, sessionVars, envVars >>

CallWithFace == \E dt \in CallGaps, d \in Detections : d.face_detected /\ Call(dt, d)

CallWithoutFace == \E dt \in CallGaps, d \in Detections : ~d.face_detected /\ Call(dt, d)

InitController ==
    /\ action_controller = NewController
    /\ ctl_out = NoCtlOut
    /\ returned_pair = NoPair
    /\ gaze_run = NoGazeRun

Init ==
    /\ \E st \in {NewCaptureThread(StartTime), WarmCaptureThread} :
          /\ now = st.now
          /\ last_command = st.last_command
          /\ last_face_detected_time = st.last_face_detected_time
          /\ eye_detector = st.eye_detector
          /\ moves = st.moves
          /\ out = st.out
          /\ emitted_pair = st.emitted_pair
          /\ absence = st.absence
          /\ closure = st.closure
    /\ InitController
    /\ det_out = NoDetOut
    /\ running = TRUE
    /\ restarted = FALSE
    /\ lost = FALSE
    /\ tally = NoTally
    /\ steady = << >>
    /\ video_player_thread = NewPlayer
    /\ video_loaded = FALSE
    /\ gui_pc = Idle
    /\ run_pc = "loop"
    /\ pending = (IF last_command = None THEN << >> ELSE << last_command >>)
    /\ touched = FALSE
    /\ seek_pending = -1
    /\ attending = TRUE

Next ==
    \/ FaceFrame
    \/ NoFaceFrame

Spec == Init /\ [][Next]_vars

\* The controller driven on its own: any sequence of process_detection calls.
InitCtl ==
    /\ Init
    /\ eye_detector = NewEyeDetector

NextCtl ==
    \/ CallWithFace
    \/ CallWithoutFace

SpecCtl == InitCtl /\ [][NextCtl]_vars

\* The loop until the face leaves for good, and from then on: frames keep
\* being processed (the loop runs while running is set), none with a face.
SeenFrame == ~lost /\ \E f \in FaceFrames : ProcessFrameBy(f, StartTime + LossHorizon)

MissedFrame == ~lost /\ ProcessFrameBy(NoFace, StartTime + LossHorizon)

LoseFace ==
    /\ ~lost
    /\ lost' = TRUE
    /\ UNCHANGED << now, loopVars, ctlVars, det_out, sessionVars, tally,
                    extraVars >>

LostForGood == lost /\ ProcessFrameBy(NoFace, StartTime + LossHorizon + LossRoom)

NextLoss ==
    \/ SeenFrame
    \/ MissedFrame
    \/ LoseFace
    \/ LostForGood

SpecLoss == Init /\ [][NextLoss]_vars /\ WF_vars(LostForGood)

\* The loop until the input becomes steady, and from then on: every frame
\* has a face, open eyes and the pose held in steady.
UnsteadyFrame ==
    /\ steady = << >>
    /\ \E f \in FaceFrames \cup {NoFace} : ProcessFrameBy(f, StartTime + SteadyHorizon)

Settle ==
    /\ steady = << >>
    /\ \E p \in HeadPoses :
          /\ moves + (IF PoseChanged(eye_detector, [face |-> TRUE, eye |-> p.eye])
                       THEN 1 ELSE 0) <= MaxMoves
          /\ steady' = << p >>
    /\ UNCHANGED << now, loopVars, ctlVars, det_out, sessionVars, lost, tally,
                    playerVars, appVars >>

SteadyInput ==
    /\ steady # << >>
    /\ ProcessFrameIn([face |-> TRUE, left |-> OpenEye, right |-> OpenEye,
                       eye |-> steady[1].eye, nose |-> steady[1].nose],
                      {1}, StartTime + SteadyHorizon + SteadyRoom)

NextSteady ==
    \/ UnsteadyFrame
    \/ Settle
    \/ SteadyInput

\* The loop's clock moves on by one frame: "while self.running" goes round
\* again after its sleep.  Enabled exactly where SteadyInput is.
SteadyTick ==
    /\ steady # << >>
    /\ running
    /\ now + 1 <= StartTime + SteadyHorizon + SteadyRoom
    /\ now' = now + 1

\* The running loop keeps iterating: a frame is processed as long as there
\* is time left.
SpecSteady == Init /\ [][NextSteady]_vars /\ WF_now(SteadyTick)

\* The player on its own: the main window's buttons, slider and close, and
\* the playback thread, which the scheduler keeps running.
NextPlayer ==
    \/ select_video
    \/ play_video
    \/ pause_video
    \/ stop_video
    \/ on_progress_slider_released
    \/ closeEvent
    \/ GuiStep
    \/ RunStep

SpecPlayer == Init /\ [][NextPlayer]_vars /\ WF_vars(RunStep) /\ WF_vars(GuiStep)

\* The main window: the capture loop's commands reach the player through
\* handle_command, next to the play and pause buttons.
NextApp ==
    \/ AppFrame
    \/ LookAway
    \/ LookBack
    \/ handle_command
    \/ select_video
    \/ play_video
    \/ pause_video
    \/ GuiStep
    \/ RunStep

SpecApp == Init /\ [][NextApp]_vars

\* The detector fed eye openings with the head at rest, and tracking losses.
InitDet ==
    /\ Init
    /\ eye_detector = NewEyeDetector

NextEye ==
    \/ EyeFrame
    \/ LostFrame

SpecEye == InitDet /\ [][NextEye]_vars

\* The detector fed head poses with open eyes, and tracking losses.
NextGaze ==
    \/ HeadFrame
    \/ LostFrame

SpecGaze == InitDet /\ [][NextGaze]_vars

\* The detector fed head poses that rest or alternate, and tracking losses.
NextWindow ==
    \/ HeadFrame
    \/ AlternateFrame
    \/ LostFrame

SpecWindow == InitDet /\ [][NextWindow]_vars

\* The loop of a freshly constructed thread over a session that is stopped
\* and started again.
SessionFrame == \E f \in FaceFrames \cup {NoFace} : ProcessFrameBy(f, StartTime + SessionHorizon)

NextSession ==
    \/ SessionFrame
    \/ stop_capture
    \/ start_capture

SpecSession == InitDet /\ [][NextSession]_vars

\* The scripted scenario, run on a freshly constructed thread.
NextScenario ==
    \/ SteadyFrame
    \/ BlinkFrame

SpecScenario == InitDet /\ [][NextScenario]_vars

\* Either the capture loop runs or the controller is driven: the two share
\* no state, the loop never calls the controller.
LoopUntouched ==
    [Thread EXCEPT !.now = StartTime] \in {NewCaptureThread(StartTime), WarmCaptureThread}

ControllerUntouched == ~ctl_out.called

NextEdge ==
    \/ ControllerUntouched /\ FaceFrame
    \/ ControllerUntouched /\ NoFaceFrame
    \/ LoopUntouched /\ CallWithFace
    \/ LoopUntouched /\ CallWithoutFace

SpecEdge == Init /\ [][NextEdge]_vars

\* ------------------------------------------------------------------ claims
Cooled(c) == ~c.first_action /\ c.since_action < action_cooldown

\* C1: no two consecutively emitted commands are the same command, for the
\* capture loop's command_detected emissions and for the commands
\* process_detection returns.
C1_EdgeTriggered ==
    /\ emitted_pair.prev # None => emitted_pair.prev # emitted_pair.last
    /\ returned_pair.prev # None => returned_pair.prev # returned_pair.last

C1_Witness ==
    /\ out.emitted = "pause"
    /\ emitted_pair.prev = "play"
    /\ emitted_pair.last = "pause"

\* C2: two calls of process_detection that return a command are at least
\* action_cooldown apart, and a call inside the cooldown returns nothing and
\* changes nothing, whatever its detection result.
C2_ControllerCooldown ==
    /\ returned_pair.gap # -1 => returned_pair.gap >= action_cooldown
    /\ (ctl_out.called /\ Cooled(ctl_out)) =>
          (ctl_out.command = None /\ ~ctl_out.changed)

C2_Witness ==
    /\ ctl_out.called
    /\ Cooled(ctl_out)
    /\ ctl_out.playing_before
    /\ ~ctl_out.attentive
    /\ returned_pair.prev = "pause"

\* C3: two command_detected emissions of the capture loop are at least
\* command_cooldown (0.8 s) apart.
C3_LoopCooldown ==
    emitted_pair.gap # -1 => emitted_pair.gap >= action_cooldown

\* C4: on a frame without a face the loop wants "pause" exactly when more
\* than 1 s has passed since the last frame with a face; otherwise it wants
\* nothing and emits nothing.
C4_GracePeriod ==
    (out.processed /\ ~out.face) =>
        /\ out.desired = "pause" <=> out.absent_for > FaceGrace
        /\ out.desired # "pause" => (out.desired = None /\ out.emitted = None)

C4_Witness ==
    /\ out.processed
    /\ ~out.face
    /\ out.absent_for > FaceGrace
    /\ out.before = "play"
    /\ out.emitted = "pause"

\* C5: with "play" the last emitted command, a loss of the face shorter than
\* the grace period, after which the face is back with open eyes at the same
\* stable position, emits no "pause".
C5_MissDoesNotFlap ==
    ( /\ out.processed
      /\ out.face
      /\ out.after_miss
      /\ out.absent_for <= FaceGrace
      /\ out.before = "play"
      /\ out.eye_after = "open"
      /\ ~out.eyes_closed
      /\ out.stable
      /\ out.same_pos ) => out.emitted # "pause"

\* C6 as stated: once frames without a face have been fed for longer than
\* the grace period, exactly one "pause" has been emitted in that run.
C6_ExactlyOnePause ==
    (out.processed /\ ~out.face /\ out.absent_for > FaceGrace) =>
        absence.pauses = 1

\* C6 as amended: a run of frames without a face emits at most one "pause";
\* once it has lasted longer than the grace period it has emitted exactly
\* one if the last command emitted before the run was not "pause", and none
\* if it was.
C6_AtMostOnePause ==
    (out.processed /\ ~out.face) =>
        /\ absence.pauses <= 1
        /\ out.absent_for > FaceGrace =>
              absence.pauses = (IF absence.before = "pause" THEN 0 ELSE 1)

C6_Witness ==
    /\ out.processed
    /\ ~out.face
    /\ out.absent_for > FaceGrace
    /\ absence.before = "play"
    /\ absence.pauses = 1
    /\ out.emitted = None

C8_BlinkDoesNotPause ==
    ( /\ out.processed
      /\ out.eye_before = "closing"
      /\ out.eye_after = "open"
      /\ closure.armed ) => ~closure.paused

\* C9 as stated: once a "play" has been returned, a call outside the
\* cooldown with face, open eyes and gaze, made while not playing, returns
\* "play".
C9_OneTimeGate ==
    ( /\ ctl_out.called
      /\ ctl_out.played_before
      /\ ~ctl_out.playing_before
      /\ ~Cooled(ctl_out)
      /\ ctl_out.attentive ) => ctl_out.command = "play"

\* C9 as amended: the gate applies to every "play": a "play" after an
\* earlier one is returned only gazing_required_duration or more after the
\* call that restarted the gaze timer.
C9_GateOnEveryPlay ==
    (ctl_out.called /\ ctl_out.played_before /\ ctl_out.command = "play") =>
        ctl_out.waited >= gazing_required_duration

C9_Witness ==
    /\ ctl_out.called
    /\ ctl_out.played_before
    /\ ctl_out.command = "play"

\* C10: "play" is returned only gazing_required_duration or more after the
\* call that started the gaze timer, and only if every call since then had a
\* face, open eyes and gaze.
C10_SustainedGaze ==
    (ctl_out.called /\ ctl_out.command = "play") =>
        /\ ctl_out.waited >= gazing_required_duration
        /\ ctl_out.unbroken

\* C11: once the last emitted command is "play" and the face has left for
\* good, frames still being processed, the eye state is forced to open and
\* a "pause" is eventually emitted.
C11_LossPauses ==
    (lost /\ last_command = "play")
        ~> (last_command = "pause" /\ eye_detector.eye_state = "open")

C11_Witness ==
    /\ lost
    /\ out.processed
    /\ ~out.face
    /\ out.before = "play"
    /\ out.emitted = "pause"
    /\ eye_detector.eye_state = "open"

\* C12: from open, a run of at most BLINK_FRAME_THRESHOLD consecutive
\* frames below the blink threshold never enters closed, every frame of the
\* run that reports eyes_closed also reports is_blinking, and the frame that
\* ends the run finds the eye state open again.
C12_BlinkTolerance ==
    /\ (det_out.called /\ det_out.low_run \in 1..BLINK_FRAME_THRESHOLD) =>
          /\ eye_detector.eye_state # "closed"
          /\ det_out.eyes_closed => det_out.is_blinking
    /\ (det_out.called /\ det_out.recovered \in 1..BLINK_FRAME_THRESHOLD) =>
          eye_detector.eye_state = "open"

C12_Witness ==
    /\ det_out.called
    /\ det_out.recovered = BLINK_FRAME_THRESHOLD
    /\ det_out.eye_before.eye_state = "closing"
    /\ det_out.eye_before.blink_counter = BLINK_FRAME_THRESHOLD
    /\ eye_detector.eye_state = "open"

\* C13: with a face and enough samples, the gaze machine leaves not_gazing
\* exactly on the frame that completes GAZING_CONFIRMATION_FRAMES stable
\* frames in a row, and an unstable frame puts the confirm counter at zero.
C13_ConfirmDebounce ==
    (det_out.called /\ det_out.enough /\ det_out.gaze_before = "not_gazing") =>
        /\ eye_detector.gazing_state = "gazing"
              <=> det_out.stable_run = GAZING_CONFIRMATION_FRAMES
        /\ det_out.is_gazing <=> eye_detector.gazing_state = "gazing"
        /\ ~det_out.stable => eye_detector.gazing_confirm_counter = 0

C13_Witness ==
    /\ det_out.called
    /\ det_out.gaze_before = "not_gazing"
    /\ eye_detector.gazing_state = "gazing"
    /\ det_out.stable_run = GAZING_CONFIRMATION_FRAMES
    /\ moves = 1

\* C14: with a face, the gaze machine leaves gazing exactly on the frame
\* that completes GAZING_BREAK_FRAMES unstable frames in a row, a stable
\* frame puts the break counter at zero, and both counters are zero right
\* after either transition.
C14_BreakHysteresis ==
    /\ (det_out.called /\ det_out.face /\ det_out.gaze_before = "gazing") =>
          /\ eye_detector.gazing_state = "not_gazing"
                <=> det_out.unstable_run = GAZING_BREAK_FRAMES
          /\ det_out.stable => eye_detector.gazing_break_counter = 0
    /\ ( /\ det_out.called
         /\ det_out.face
         /\ det_out.gaze_before # eye_detector.gazing_state ) =>
          /\ eye_detector.gazing_confirm_counter = 0
          /\ eye_detector.gazing_break_counter = 0

C14_Witness ==
    /\ det_out.called
    /\ det_out.face
    /\ det_out.gaze_before = "gazing"
    /\ eye_detector.gazing_state = "not_gazing"
    /\ det_out.unstable_run = GAZING_BREAK_FRAMES

\* C15: on a frame with a face, eyes_closed is reported exactly when the
\* eye state after the update is closed, or is closing with the EAR below
\* the open threshold; never in the states open and opening.
C15_ReportedClosure ==
    (det_out.called /\ det_out.face) =>
        ( det_out.eyes_closed <=>
            \/ eye_detector.eye_state = "closed"
            \/ /\ eye_detector.eye_state = "closing"
               /\ det_out.avg_ear < EAR_OPEN_THRESHOLD )

C15_Witness ==
    /\ det_out.called
    /\ det_out.face
    /\ eye_detector.eye_state = "closing"
    /\ det_out.eyes_closed

\* C16: a frame without a face leaves the eye state open and the blink
\* counter, the closed counter, the blink cooldown counter and the
\* blink-phase flag at their zero values, whatever they were before.
C16_LossResetsEye ==
    (det_out.called /\ ~det_out.face) =>
        EyePart(eye_detector) = EyePart(NewEyeDetector)

C16_Witness ==
    /\ det_out.called
    /\ ~det_out.face
    /\ det_out.eye_before.eye_state = "closed"
    /\ det_out.eye_before.closed_counter > BLINK_FRAME_THRESHOLD
    /\ det_out.eye_before.in_blink_phase
    /\ eye_detector.eye_state = "open"

\* C18: a frame without a face met while gazing leaves the gaze machine
\* not_gazing with both counters at zero, and is_gazing is reported again
\* only on the frame that completes GAZING_CONFIRMATION_FRAMES stable
\* frames in a row after it.
C18_NoResidue ==
    /\ (det_out.called /\ ~det_out.face /\ det_out.gaze_before = "gazing") =>
          /\ eye_detector.gazing_state = "not_gazing"
          /\ eye_detector.gazing_confirm_counter = 0
          /\ eye_detector.gazing_break_counter = 0
    /\ (det_out.called /\ det_out.since_reset >= 0) =>
          (det_out.is_gazing <=> det_out.since_reset = GAZING_CONFIRMATION_FRAMES)

C18_Witness ==
    /\ det_out.called
    /\ det_out.since_reset = GAZING_CONFIRMATION_FRAMES
    /\ det_out.is_gazing

\* C17: a frame whose EAR is undefined (eye-corner distance zero) leaves
\* the eye state and every eye counter as they were.
C17_InvalidHeld ==
    (det_out.called /\ det_out.degenerate) =>
        EyePart(eye_detector) = det_out.eye_before

\* C19: right after start_capture on a stopped thread, the detector's eye
\* counters, gaze counters and position windows and last_command have
\* their initial values.
C19_RestartResets ==
    restarted => (eye_detector = NewEyeDetector /\ last_command = None)

C21_Windowing ==
    (det_out.called /\ det_out.enough) =>
        /\ det_out.uniform =>
              /\ det_out.position_variance.num = 0
              /\ det_out.stable
        /\ det_out.alternating =>
              /\ det_out.position_variance.num >
                    GAZING_STABILITY_THRESHOLD * det_out.position_variance.den
              /\ ~det_out.stable

C21_Witness ==
    /\ det_out.called
    /\ det_out.alternating
    /\ Len(eye_detector.face_position_history) = PositionHistoryLen
    /\ ~det_out.stable
    /\ det_out.gaze_part_before.gazing_confirm_counter = 0

\* C22: from open, under consecutive frames below the blink threshold the
\* eye state is closing with blink_counter 1 on the first frame, closing
\* with the counter equal to the length of the run up to
\* BLINK_FRAME_THRESHOLD frames, and closed on the frame after that, where
\* the counter first exceeds the threshold.
C22_SustainedClosure ==
    det_out.called =>
        /\ det_out.low_run = 1 =>
              /\ eye_detector.eye_state = "closing"
              /\ eye_detector.blink_counter = 1
        /\ det_out.low_run \in 2..BLINK_FRAME_THRESHOLD =>
              /\ eye_detector.eye_state = "closing"
              /\ eye_detector.blink_counter = det_out.low_run
        /\ det_out.low_run = BLINK_FRAME_THRESHOLD + 1 =>
              /\ det_out.eye_before.eye_state = "closing"
              /\ eye_detector.eye_state = "closed"
              /\ eye_detector.blink_counter = BLINK_FRAME_THRESHOLD + 1

C22_Witness ==
    /\ det_out.called
    /\ det_out.low_run = BLINK_FRAME_THRESHOLD + 1
    /\ det_out.eye_before.eye_state = "closing"
    /\ eye_detector.eye_state = "closed"

\* C23: on a frame with a face met in closed, an EAR above the open
\* threshold gives opening and any other EAR leaves closed, never open; met
\* in opening, an EAR above the open threshold gives open and any other EAR
\* gives closed.
C23_ReopenConfirmation ==
    (det_out.called /\ det_out.face) =>
        /\ det_out.eye_before.eye_state = "closed" =>
              /\ eye_detector.eye_state # "open"
              /\ eye_detector.eye_state = "opening"
                    <=> det_out.avg_ear > EAR_OPEN_THRESHOLD
        /\ det_out.eye_before.eye_state = "opening" =>
              /\ det_out.avg_ear > EAR_OPEN_THRESHOLD =>
                    eye_detector.eye_state = "open"
              /\ det_out.avg_ear <= EAR_OPEN_THRESHOLD =>
                    eye_detector.eye_state = "closed"

C23_Witness ==
    /\ det_out.called
    /\ det_out.face
    /\ det_out.eye_before.eye_state = "opening"
    /\ det_out.avg_ear > EAR_OPEN_THRESHOLD
    /\ eye_detector.eye_state = "open"

\* C25: the eye state is one of open, closing, closed, opening; a frame
\* with a face changes it only along open -> closing, closing -> closed,
\* closing -> open, closed -> opening, opening -> open, opening -> closed,
\* and a frame without a face leaves it open.
C25_EyeEdges ==
    /\ eye_detector.eye_state \in {"open", "closing", "closed", "opening"}
    /\ (det_out.called /\ det_out.face) =>
          \/ eye_detector.eye_state = det_out.eye_before.eye_state
          \/ << det_out.eye_before.eye_state, eye_detector.eye_state >> \in
                { <<"open", "closing">>, <<"closing", "closed">>,
                  <<"closing", "open">>, <<"closed", "opening">>,
                  <<"opening", "open">>, <<"opening", "closed">> }
    /\ (det_out.called /\ ~det_out.face) => eye_detector.eye_state = "open"

C25_Witness ==
    /\ det_out.called
    /\ det_out.face
    /\ det_out.eye_before.eye_state = "opening"
    /\ eye_detector.eye_state = "closed"

\* C24: once a closure that reported is_blinking has recovered to open,
\* is_blinking is not reported again on any of the next BLINK_COOLDOWN
\* frames.
C24_BlinkCooldown == ~det_out.reflagged_early

\* C26: the gaze state changes only on a frame that completes
\* GAZING_CONFIRMATION_FRAMES stable frames in a row (to gazing) or
\* GAZING_BREAK_FRAMES unstable frames in a row (to not_gazing).
C26_NoSingleFrameFlip ==
    (det_out.called /\ eye_detector.gazing_state # det_out.gaze_before) =>
        \/ /\ eye_detector.gazing_state = "gazing"
           /\ det_out.stable_run = GAZING_CONFIRMATION_FRAMES
        \/ /\ eye_detector.gazing_state = "not_gazing"
           /\ det_out.unstable_run = GAZING_BREAK_FRAMES

\* C27: a frame with a face after which a position window holds fewer than
\* MinSamples samples reports is_gazing false and leaves the gaze state, the
\* confirm counter and the break counter as they were.
C27_InsufficientEvidence ==
    ( /\ det_out.called
      /\ det_out.face
      /\ \/ Len(eye_detector.face_position_history) < MinSamples
         \/ Len(eye_detector.nose_position_history) < MinSamples ) =>
        /\ ~det_out.is_gazing
        /\ GazePart(eye_detector) = det_out.gaze_part_before

C27_Witness ==
    /\ det_out.called
    /\ det_out.face
    /\ det_out.uniform
    /\ Len(eye_detector.face_position_history) = MinSamples - 1
    /\ ~det_out.is_gazing
    /\ eye_detector.gazing_confirm_counter = 0

\* C28: each position window holds at most PositionHistoryLen samples; a
\* frame with a face puts its position at the newest end of each window and,
\* when the window was full, drops exactly the oldest sample; a frame
\* without a face leaves the windows as they were.
C28_SlidingWindow ==
    [][ LET Slid(h, g) ==
                /\ Len(g) <= PositionHistoryLen
                /\ Len(g) >= 1
                /\ IF Len(h) < PositionHistoryLen
                   THEN SubSeq(g, 1, Len(g) - 1) = h
                   ELSE SubSeq(g, 1, Len(g) - 1) = Tail(h)
        IN  IF det_out'.face
            THEN /\ Slid(eye_detector.face_position_history,
                         eye_detector'.face_position_history)
                 /\ Slid(eye_detector.nose_position_history,
                         eye_detector'.nose_position_history)
            ELSE /\ eye_detector'.face_position_history =
                       eye_detector.face_position_history
                 /\ eye_detector'.nose_position_history =
                       eye_detector.nose_position_history ]_vars

C28_Witness ==
    /\ det_out.called
    /\ det_out.face
    /\ det_out.window_before = PositionHistoryLen
    /\ Len(eye_detector.face_position_history) = PositionHistoryLen
    /\ eye_detector.face_position_history[1] #
           eye_detector.face_position_history[PositionHistoryLen]

\* C29: the eye update of a frame leaves the gaze state and the gaze
\* counters as they were, the gaze update leaves the eye state and the eye
\* counters as the eye update made them, and a frame that reports a blink or
\* closed eyes while gazing, with a stable position, leaves the gaze state
\* gazing.
C29_Independent ==
    det_out.called =>
        /\ det_out.eye_kept_gaze
        /\ det_out.gaze_kept_eye
        /\ ( /\ det_out.face
             /\ det_out.gaze_before = "gazing"
             /\ det_out.stable
             /\ det_out.is_blinking \/ det_out.eyes_closed ) =>
              /\ eye_detector.gazing_state = "gazing"
              /\ det_out.is_gazing

C29_Witness ==
    /\ det_out.called
    /\ det_out.face
    /\ det_out.gaze_before = "gazing"
    /\ det_out.stable
    /\ det_out.is_blinking
    /\ eye_detector.eye_state = "closing"
    /\ eye_detector.gazing_state = "gazing"

\* C30: no command is emitted within action_cooldown of the construction
\* of the thread and its controller (at StartTime).
C30_CooldownFromConstruction ==
    emitted_pair.last # None =>
        emitted_pair.last_time - StartTime >= action_cooldown

\* C37: whenever the eye state is closed, closed_counter is above
\* BLINK_FRAME_THRESHOLD, and a frame that leaves the eye state closed
\* reports neither is_blinking nor is_short_blink.
C37_ClosedIsSustained ==
    eye_detector.eye_state = "closed" =>
        /\ eye_detector.closed_counter > BLINK_FRAME_THRESHOLD
        /\ det_out.called
        /\ det_out.eyes_closed
        /\ ~det_out.is_blinking
        /\ ~det_out.is_short_blink

C37_Witness ==
    /\ det_out.called
    /\ det_out.eye_before.eye_state = "opening"
    /\ eye_detector.eye_state = "closed"
    /\ eye_detector.closed_counter > BLINK_FRAME_THRESHOLD
    /\ ~det_out.is_blinking

\* C38: after every frame in_blink_phase is set exactly when the eye state
\* is not open, and blink_counter is 0 in open and opening, between 1 and
\* BLINK_FRAME_THRESHOLD in closing, and never negative.
C38_EyeCounters ==
    /\ eye_detector.in_blink_phase <=> eye_detector.eye_state # "open"
    /\ eye_detector.eye_state \in {"open", "opening"} =>
          eye_detector.blink_counter = 0
    /\ eye_detector.eye_state = "closing" =>
          eye_detector.blink_counter \in 1..BLINK_FRAME_THRESHOLD
    /\ eye_detector.blink_counter >= 0

C38_Witness ==
    /\ det_out.called
    /\ det_out.eye_before.eye_state = "closed"
    /\ det_out.eye_before.blink_counter = BLINK_FRAME_THRESHOLD + 1
    /\ eye_detector.eye_state = "opening"
    /\ eye_detector.blink_counter = 0
    /\ eye_detector.in_blink_phase

\* C39: after every frame the confirm counter is in
\* 0..GAZING_CONFIRMATION_FRAMES - 1 and the break counter in
\* 0..GAZING_BREAK_FRAMES - 1; the break counter is 0 in not_gazing and the
\* confirm counter is 0 in gazing.
C39_GazeCounters ==
    /\ eye_detector.gazing_confirm_counter \in 0..(GAZING_CONFIRMATION_FRAMES - 1)
    /\ eye_detector.gazing_break_counter \in 0..(GAZING_BREAK_FRAMES - 1)
    /\ eye_detector.gazing_state = "not_gazing" =>
          eye_detector.gazing_break_counter = 0
    /\ eye_detector.gazing_state = "gazing" =>
          eye_detector.gazing_confirm_counter = 0

C39_Witness ==
    /\ det_out.called
    /\ eye_detector.gazing_state = "gazing"
    /\ eye_detector.gazing_break_counter = GAZING_BREAK_FRAMES - 1
    /\ eye_detector.gazing_confirm_counter = 0

\* C31: the commands process_detection returns alternate, the first of them
\* is "play", and video_playing is set exactly when the command returned
\* last is "play".
C31_Alternation ==
    /\ returned_pair.last # None =>
          /\ returned_pair.prev # returned_pair.last
          /\ returned_pair.prev = None => returned_pair.last = "play"
    /\ action_controller.video_playing <=> returned_pair.last = "play"

C31_Witness ==
    /\ ctl_out.called
    /\ ctl_out.command = "play"
    /\ returned_pair.last = "play"
    /\ returned_pair.prev = "pause"
    /\ action_controller.video_playing

\* C32: once every frame has a face, open eyes and one position, frames
\* still being processed, the loop comes to a point from which the gaze
\* state is gazing, the eye state is open and last_command is "play" for
\* good.
C32_SteadyPlays ==
    <>[](steady # << >> =>
            /\ eye_detector.gazing_state = "gazing"
            /\ eye_detector.eye_state = "open"
            /\ last_command = "play")

C32_Witness ==
    /\ steady # << >>
    /\ out.processed
    /\ out.gaze_before = "not_gazing"
    /\ out.emitted = "play"
    /\ ~out.eyes_closed
    /\ moves = 1
    /\ eye_detector.gazing_state = "gazing"

\* C34: with the GUI thread between calls and the playback thread outside
\* its end-of-playback handling, the player's flags stopped and playing are
\* not both set.
C34_FlagsConsistent ==
    (gui_pc = Idle /\ run_pc \notin {"end_playing", "end_stopped", "end_frame"}) =>
        ~(video_player_thread.stopped /\ video_player_thread.playing)

\* C35: an accepted seek that the playback loop has not yet applied (it has
\* not set current_frame to the frame asked for) is still held in
\* target_frame.
C35_NoSeekLost ==
    seek_pending # -1 => video_player_thread.target_frame = seek_pending

\* C36: once shutdown() has been called, the playback loop leaves run(), and
\* the capture is released and cap is None.
C36_ShutdownTerminates ==
    gui_pc.method = "shutdown"
        ~> (run_pc = "done" /\ ~video_player_thread.cap)

C36_Witness ==
    /\ video_player_thread.exiting
    /\ run_pc = "done"
    /\ ~video_player_thread.cap
    /\ video_player_thread.total_frames = TotalFrames
    /\ video_player_thread.current_frame > 0

\* C33: with a video loaded, the last emitted command "play", every emitted
\* command handled, and no button press or end of playback since, the player
\* is playing and not paused.
C33_InStep ==
    ( /\ video_loaded
      /\ last_command = "play"
      /\ pending = << >>
      /\ gui_pc = Idle
      /\ ~touched
      /\ run_pc \notin {"end_playing", "end_stopped", "end_frame"} )
        => (video_player_thread.playing /\ ~video_player_thread.paused)


====
